---- MODULE Spec2Model ----
(***************************************************************************)
(* Inventory manager of src/inventario_tienda.py: the Producto record with *)
(* its validating constructor and setters, and the Inventario list with    *)
(* its add / remove / update / search / list operations.                   *)
(*                                                                         *)
(* Text is a sequence of one-character strings, so that strip(), lower()   *)
(* and the substring test are computed.  A Python argument is a tagged     *)
(* value (None, bool, int, float, str), so that int(), str() and float()   *)
(* are computed as the interpreter computes them.  A float is a number of  *)
(* tenths, or nan, inf, -inf.                                              *)
(***************************************************************************)
EXTENDS Integers, Sequences, FiniteSets

VARIABLES obj, productos, last, vivos, antes

vars == <<obj, productos, last, vivos, antes>>

(***************************************************************************)
(* Text: str.strip, str.lower, str.replace, the `in` substring test.       *)
(***************************************************************************)
Mayusculas == <<"A", "B", "C", "D", "I", "N", "F", "X">>

Minusculas == <<"a", "b", "c", "d", "i", "n", "f", "x">>

Digitos == <<"0", "1", "2", "3", "4", "5", "6", "7", "8", "9">>

IsSpace(ch) == ch \in {" ", "\t", "\n"}

IsDigit(ch) == \E i \in 1..Len(Digitos) : Digitos[i] = ch

DigitVal(ch) == (CHOOSE i \in 1..Len(Digitos) : Digitos[i] = ch) - 1

LowerChar(ch) ==
    IF \E i \in 1..Len(Mayusculas) : Mayusculas[i] = ch
    THEN Minusculas[CHOOSE i \in 1..Len(Mayusculas) : Mayusculas[i] = ch]
    ELSE ch

Lower(s) == [i \in 1..Len(s) |-> LowerChar(s[i])]

RECURSIVE LStrip(_)
LStrip(s) ==
    IF s # <<>> /\ IsSpace(Head(s)) THEN LStrip(Tail(s)) ELSE s

RECURSIVE RStrip(_)
RStrip(s) ==
    IF s # <<>> /\ IsSpace(s[Len(s)]) THEN RStrip(SubSeq(s, 1, Len(s) - 1)) ELSE s

Strip(s) == RStrip(LStrip(s))

ReplaceChar(s, old, new) == [i \in 1..Len(s) |-> IF s[i] = old THEN new ELSE s[i]]

StartsWith(s, t) == Len(t) <= Len(s) /\ SubSeq(s, 1, Len(t)) = t

RECURSIVE Contains(_, _)
Contains(t, s) ==
    IF StartsWith(s, t) THEN TRUE
    ELSE IF s = <<>> THEN FALSE
    ELSE Contains(t, Tail(s))

(***************************************************************************)
(* Python values and floats.                                               *)
(***************************************************************************)
Fin(tenths) == [k |-> "fin", v |-> tenths]

NaN == [k |-> "nan", v |-> 0]

Inf == [k |-> "inf", v |-> 0]

NegInf == [k |-> "ninf", v |-> 0]

PyNone == [t |-> "None", n |-> 0, f |-> Fin(0), s |-> <<>>]

PyBool(b) == [t |-> "bool", n |-> IF b THEN 1 ELSE 0, f |-> Fin(0), s |-> <<>>]

PyInt(n) == [t |-> "int", n |-> n, f |-> Fin(0), s |-> <<>>]

PyFloat(f) == [t |-> "float", n |-> 0, f |-> f, s |-> <<>>]

PyStr(s) == [t |-> "str", n |-> 0, f |-> Fin(0), s |-> s]

\* x < 0 on floats: every comparison with nan is false.
FloatLtZero(f) == f.k = "ninf" \/ (f.k = "fin" /\ f.v < 0)

Ok(val) == [exc |-> "", val |-> val]

Raise(exc) == [exc |-> exc, val |-> 0]

RECURSIVE DigitsVal(_)
DigitsVal(s) ==
    IF s = <<>> THEN 0 ELSE 10 * DigitsVal(SubSeq(s, 1, Len(s) - 1)) + DigitVal(s[Len(s)])

AllDigits(s) == s # <<>> /\ \A i \in 1..Len(s) : IsDigit(s[i])

HasSign(s) == s # <<>> /\ Head(s) \in {"+", "-"}

Unsigned(s) == IF HasSign(s) THEN Tail(s) ELSE s

Signo(s) == IF s # <<>> /\ Head(s) = "-" THEN -1 ELSE 1

\* int("  -12 "): optional blanks, optional sign, decimal digits (the
\* arguments of the calls hold no underscore or other base).
ParseInt(s) ==
    LET t == Strip(s)
    IN  IF AllDigits(Unsigned(t)) THEN Ok(Signo(t) * DigitsVal(Unsigned(t)))
        ELSE Raise("ValueError")

\* Truncation toward zero of a number of tenths.
Trunc(tenths) == IF tenths >= 0 THEN tenths \div 10 ELSE -((-tenths) \div 10)

\* int(x)
ToInt(x) ==
    CASE x.t = "None" -> Raise("TypeError")
      [] x.t = "bool" -> Ok(x.n)
      [] x.t = "int" -> Ok(x.n)
      [] x.t = "float" ->
            IF x.f.k = "fin" THEN Ok(Trunc(x.f.v))
            ELSE IF x.f.k = "nan" THEN Raise("ValueError")
            ELSE Raise("OverflowError")
      [] x.t = "str" -> ParseInt(x.s)

RECURSIVE NatStr(_)
NatStr(n) == IF n < 10 THEN <<Digitos[n + 1]>> ELSE NatStr(n \div 10) \o <<Digitos[(n % 10) + 1]>>

IntStr(n) == IF n < 0 THEN <<"-">> \o NatStr(-n) ELSE NatStr(n)

FloatStr(f) ==
    CASE f.k = "nan" -> <<"n", "a", "n">>
      [] f.k = "inf" -> <<"i", "n", "f">>
      [] f.k = "ninf" -> <<"-", "i", "n", "f">>
      [] f.k = "fin" ->
            LET a == IF f.v < 0 THEN -f.v ELSE f.v
            IN  (IF f.v < 0 THEN <<"-">> ELSE <<>>)
                \o NatStr(a \div 10) \o <<".">> \o NatStr(a % 10)

\* str(x)
ToStr(x) ==
    CASE x.t = "None" -> <<"N", "o", "n", "e">>
      [] x.t = "bool" -> IF x.n = 1 THEN <<"T", "r", "u", "e">> ELSE <<"F", "a", "l", "s", "e">>
      [] x.t = "int" -> IntStr(x.n)
      [] x.t = "float" -> FloatStr(x.f)
      [] x.t = "str" -> x.s

PointAt(s) == CHOOSE i \in 1..Len(s) : s[i] = "."

\* The decimal literals float() accepts, up to one fractional digit (the
\* resolution of Fin): "12", "12.", "1.5", ".5".  The arguments of the calls
\* hold no exponent, underscore or longer fraction.
IsDecimal(s) ==
    IF \E i \in 1..Len(s) : s[i] = "."
    THEN LET i == PointAt(s)
             ip == SubSeq(s, 1, i - 1)
             fp == SubSeq(s, i + 1, Len(s))
         IN  /\ Len(fp) <= 1
             /\ ip \o fp # <<>>
             /\ \A j \in 1..Len(ip) : IsDigit(ip[j])
             /\ \A j \in 1..Len(fp) : IsDigit(fp[j])
    ELSE AllDigits(s)

DecimalTenths(s) ==
    IF \E i \in 1..Len(s) : s[i] = "."
    THEN LET i == PointAt(s)
         IN  10 * DigitsVal(SubSeq(s, 1, i - 1)) + DigitsVal(SubSeq(s, i + 1, Len(s)))
    ELSE 10 * DigitsVal(s)

\* float(" -1.5 "): optional blanks, optional sign, then nan, inf, infinity
\* (any case) or a decimal literal.
ParseFloat(s) ==
    LET t == Strip(s)
        u == Unsigned(t)
        w == Lower(u)
    IN  IF w = <<"n", "a", "n">> THEN Ok(NaN)
        ELSE IF w = <<"i", "n", "f">> \/ w = <<"i", "n", "f", "i", "n", "i", "t", "y">>
             THEN Ok(IF Signo(t) = -1 THEN NegInf ELSE Inf)
        ELSE IF IsDecimal(u) THEN Ok(Fin(Signo(t) * DecimalTenths(u)))
        ELSE Raise("ValueError")

\* float(str(x).replace(",", "."))
ToFloat(x) == ParseFloat(ReplaceChar(ToStr(x), ",", "."))

(***************************************************************************)
(* class Producto                                                          *)
(***************************************************************************)
\* The class of every error the validations raise.
ValidationError == "ValueError"

MsgCantidadEntero == "La cantidad debe ser un entero."

MsgCantidadNegativa == "La cantidad no puede ser negativa."

MsgPrecioNumero == "El precio debe ser un numero."

MsgPrecioNegativo == "El precio no puede ser negativo."

MsgIdVacio == "El ID no puede estar vacio."

MsgNombreVacio == "El nombre no puede estar vacio."

MsgIdRepetido == "Ya existe un producto con ID."

\* The outcome of a call on a Producto: the exception raised ("" when the
\* call returns), its message, and the object (a sequence of length 0 or 1).
Hecho(o) == [exc |-> "", msg |-> "", obj |-> o]

Falla(exc, msg, o) == [exc |-> exc, msg |-> msg, obj |-> o]

\* int(x) inside try / except (TypeError, ValueError): raise ValueError(msg).
\* Any other exception of int() passes through the except clause.
IntOrValueError(x, msg) ==
    LET r == ToInt(x)
    IN  IF r.exc \in {"TypeError", "ValueError"}
        THEN [exc |-> "ValueError", msg |-> msg, val |-> 0]
        ELSE [exc |-> r.exc, msg |-> "", val |-> r.val]

\* float(str(x).replace(",", ".")) inside the same try / except.
FloatOrValueError(x, msg) ==
    LET r == ToFloat(x)
    IN  IF r.exc \in {"TypeError", "ValueError"}
        THEN [exc |-> "ValueError", msg |-> msg, val |-> NaN]
        ELSE [exc |-> r.exc, msg |-> "", val |-> r.val]

\* Producto.__init__: no object reaches the caller when it raises.
Producto_init(id_, nombre, cantidad, precio) ==
    LET i == Strip(ToStr(id_))
        n == Strip(ToStr(nombre))
        c == IntOrValueError(cantidad, MsgCantidadEntero)
        p == FloatOrValueError(precio, MsgPrecioNumero)
    IN  IF c.exc # "" THEN Falla(c.exc, c.msg, <<>>)
        ELSE IF c.val < 0 THEN Falla("ValueError", MsgCantidadNegativa, <<>>)
        ELSE IF p.exc # "" THEN Falla(p.exc, p.msg, <<>>)
        ELSE IF FloatLtZero(p.val) THEN Falla("ValueError", MsgPrecioNegativo, <<>>)
        ELSE IF i = <<>> THEN Falla("ValueError", MsgIdVacio, <<>>)
        ELSE IF n = <<>> THEN Falla("ValueError", MsgNombreVacio, <<>>)
        ELSE Hecho(<<[id |-> i, nombre |-> n, cantidad |-> c.val, precio |-> p.val]>>)

get_id(prod) == prod.id

get_nombre(prod) == prod.nombre

get_cantidad(prod) == prod.cantidad

get_precio(prod) == prod.precio

set_nombre(prod, nuevo_nombre) ==
    LET n == Strip(ToStr(nuevo_nombre))
    IN  IF n = <<>> THEN Falla("ValueError", MsgNombreVacio, <<prod>>)
        ELSE Hecho(<<[prod EXCEPT !.nombre = n]>>)

\* set_cantidad storing the converted value before the sign is checked.
set_cantidad_asigna_antes(prod, nueva_cantidad) ==
    LET c == IntOrValueError(nueva_cantidad, MsgCantidadEntero)
    IN  IF c.exc # "" THEN Falla(c.exc, c.msg, <<prod>>)
        ELSE IF c.val < 0
        THEN Falla("ValueError", MsgCantidadNegativa, <<[prod EXCEPT !.cantidad = c.val]>>)
        ELSE Hecho(<<[prod EXCEPT !.cantidad = c.val]>>)

set_cantidad(prod, nueva_cantidad) ==
    LET c == IntOrValueError(nueva_cantidad, MsgCantidadEntero)
    IN  IF c.exc # "" THEN Falla(c.exc, c.msg, <<prod>>)
        ELSE IF c.val < 0 THEN Falla("ValueError", MsgCantidadNegativa, <<prod>>)
        ELSE Hecho(<<[prod EXCEPT !.cantidad = c.val]>>)

set_precio(prod, nuevo_precio) ==
    LET p == FloatOrValueError(nuevo_precio, MsgPrecioNumero)
    IN  IF p.exc # "" THEN Falla(p.exc, p.msg, <<prod>>)
        ELSE IF FloatLtZero(p.val) THEN Falla("ValueError", MsgPrecioNegativo, <<prod>>)
        ELSE Hecho(<<[prod EXCEPT !.precio = p.val]>>)

(***************************************************************************)
(* class Inventario                                                        *)
(***************************************************************************)
\* The outcome of a call on the Inventario: the exception raised ("" when
\* the call returns), its message, the returned bool, the returned list and
\* the list self.productos after the call.
Resultado(exc, msg, ret, lst, ps) ==
    [exc |-> exc, msg |-> msg, ret |-> ret, lst |-> lst, productos |-> ps]

\* del self.productos[i:] in place of del self.productos[i].
RemoveAt_resto(ps, i) == SubSeq(ps, 1, i - 1)

RemoveAt(ps, i) == SubSeq(ps, 1, i - 1) \o SubSeq(ps, i + 1, Len(ps))

\* _existe_id looking at the last product only.
_existe_id_ultimo(ps, id_producto) ==
    ps # <<>> /\ get_id(ps[Len(ps)]) = id_producto

_existe_id(ps, id_producto) ==
    \E i \in 1..Len(ps) : get_id(ps[i]) = id_producto

\* The index of the first product with that id after strip(), 0 for None.
_buscar_por_id(ps, id_producto) ==
    LET id == Strip(ToStr(id_producto))
        hits == {i \in 1..Len(ps) : get_id(ps[i]) = id}
    IN  IF hits = {} THEN 0 ELSE CHOOSE i \in hits : \A j \in hits : i <= j

\* agregar_producto appending before it checks the id.
agregar_antes_de_comprobar(ps, producto) ==
    IF _existe_id(ps, get_id(producto))
    THEN Resultado("ValueError", MsgIdRepetido, FALSE, <<>>, Append(ps, producto))
    ELSE Resultado("", "", FALSE, <<>>, Append(ps, producto))

\* agregar_producto inserting at the head of the list.
agregar_al_inicio(ps, producto) ==
    IF _existe_id(ps, get_id(producto))
    THEN Resultado("ValueError", MsgIdRepetido, FALSE, <<>>, ps)
    ELSE Resultado("", "", FALSE, <<>>, <<producto>> \o ps)

agregar_producto(ps, producto) ==
    IF _existe_id(ps, get_id(producto))
    THEN Resultado("ValueError", MsgIdRepetido, FALSE, <<>>, ps)
    ELSE Resultado("", "", FALSE, <<>>, Append(ps, producto))

eliminar_por_id(ps, id_producto) ==
    LET id == Strip(ToStr(id_producto))
        hits == {i \in 1..Len(ps) : get_id(ps[i]) = id}
    IN  IF hits = {} THEN Resultado("", "", FALSE, <<>>, ps)
        ELSE LET i == CHOOSE k \in hits : \A j \in hits : k <= j
             IN  Resultado("", "", TRUE, <<>>, RemoveAt(ps, i))

\* actualizar validating its arguments before it looks the id up.
actualizar_valida_primero(ps, id_producto, cantidad, precio) ==
    LET k == _buscar_por_id(ps, id_producto)
        prod == IF k = 0 THEN Producto_init(PyStr(<<"x">>), PyStr(<<"x">>), PyInt(0), PyInt(0)).obj[1]
                ELSE ps[k]
        c == IF cantidad # PyNone THEN set_cantidad(prod, cantidad) ELSE Hecho(<<prod>>)
        p == IF precio # PyNone THEN set_precio(c.obj[1], precio) ELSE Hecho(c.obj)
        qs == IF k = 0 THEN ps ELSE [ps EXCEPT ![k] = p.obj[1]]
    IN  IF c.exc # "" THEN Resultado(c.exc, c.msg, FALSE, <<>>, ps)
        ELSE IF p.exc # "" THEN Resultado(p.exc, p.msg, FALSE, <<>>, qs)
        ELSE Resultado("", "", k # 0, <<>>, qs)

\* actualizar testing `if cantidad:` and `if precio:` in place of `is not None`.
actualizar_si_verdadero(ps, id_producto, cantidad, precio) ==
    LET k == _buscar_por_id(ps, id_producto)
        Falso(x) == x = PyNone \/ (x.t \in {"int", "bool"} /\ x.n = 0) \/ (x.t = "str" /\ x.s = <<>>)
                      \/ (x.t = "float" /\ x.f = Fin(0))
    IN  IF k = 0 THEN Resultado("", "", FALSE, <<>>, ps)
        ELSE LET c == IF ~Falso(cantidad) THEN set_cantidad(ps[k], cantidad)
                      ELSE Hecho(<<ps[k]>>)
                 p == IF ~Falso(precio) THEN set_precio(c.obj[1], precio)
                      ELSE Hecho(c.obj)
             IN  IF c.exc # ""
                 THEN Resultado(c.exc, c.msg, FALSE, <<>>, [ps EXCEPT ![k] = c.obj[1]])
                 ELSE IF p.exc # ""
                 THEN Resultado(p.exc, p.msg, FALSE, <<>>, [ps EXCEPT ![k] = p.obj[1]])
                 ELSE Resultado("", "", TRUE, <<>>, [ps EXCEPT ![k] = p.obj[1]])

actualizar(ps, id_producto, cantidad, precio) ==
    LET k == _buscar_por_id(ps, id_producto)
    IN  IF k = 0 THEN Resultado("", "", FALSE, <<>>, ps)
        ELSE LET c == IF cantidad # PyNone THEN set_cantidad(ps[k], cantidad)
                      ELSE Hecho(<<ps[k]>>)
                 p == IF precio # PyNone THEN set_precio(c.obj[1], precio)
                      ELSE Hecho(c.obj)
             IN  IF c.exc # ""
                 THEN Resultado(c.exc, c.msg, FALSE, <<>>, [ps EXCEPT ![k] = c.obj[1]])
                 ELSE IF p.exc # ""
                 THEN Resultado(p.exc, p.msg, FALSE, <<>>, [ps EXCEPT ![k] = p.obj[1]])
                 ELSE Resultado("", "", TRUE, <<>>, [ps EXCEPT ![k] = p.obj[1]])

\* buscar_por_nombre comparing with the name as stored, not lowercased.
buscar_sin_lower(ps, termino) ==
    LET t == Lower(Strip(ToStr(termino)))
        Coincide(prod) == Contains(t, get_nombre(prod))
    IN  IF t = <<>> THEN Resultado("", "", FALSE, <<>>, ps)
        ELSE Resultado("", "", FALSE, SelectSeq(ps, Coincide), ps)

buscar_por_nombre(ps, termino) ==
    LET t == Lower(Strip(ToStr(termino)))
        Coincide(prod) == Contains(t, Lower(get_nombre(prod)))
    IN  IF t = <<>> THEN Resultado("", "", FALSE, <<>>, ps)
        ELSE Resultado("", "", FALSE, SelectSeq(ps, Coincide), ps)

mostrar_todos(ps) == Resultado("", "", FALSE, ps, ps)

\* The longest list the calls build: agregar_producto is not called on a
\* list of this length.
MaxLen == 3

(***************************************************************************)
(* Arguments of the calls.                                                 *)
(***************************************************************************)
\* Producto(id_, nombre, cantidad, precio)
IdArgs == { PyStr(<<" ", "a", " ">>), PyStr(<<" ">>) }

NombreArgs == { PyStr(<<"A", "b">>), PyStr(<<" ", " ">>) }

CantidadArgs ==
    { PyInt(2), PyInt(-1), PyFloat(Fin(25)), PyFloat(Fin(-5)), PyFloat(Inf),
      PyStr(<<"2", ".", "5">>), PyNone }

PrecioArgs ==
    { PyInt(1), PyFloat(Fin(-5)), PyStr(<<"1", ",", "5">>), PyStr(<<"n", "a", "n">>),
      PyStr(<<"x">>), PyNone }

\* set_nombre(x), set_cantidad(x), set_precio(x)
NombreCambios == { PyStr(<<" ", "b", " ">>), PyStr(<<" ", " ">>), PyStr(<<>>) }

CantidadCambios ==
    { PyInt(0), PyInt(2), PyInt(-1),
      PyFloat(Fin(25)), PyFloat(Fin(-5)), PyFloat(Inf), PyFloat(NaN),
      PyStr(<<" ", "2">>), PyStr(<<"2", ".", "5">>), PyStr(<<"x">>),
      PyNone, PyBool(TRUE) }

PrecioCambios ==
    { PyInt(1), PyInt(-1),
      PyFloat(Fin(15)), PyFloat(Fin(-5)), PyFloat(NaN),
      PyStr(<<"1", ",", "5">>), PyStr(<<"1", ",", "5", ",", "5">>),
      PyStr(<<"n", "a", "n">>), PyStr(<<"-", "i", "n", "f">>), PyStr(<<"x">>),
      PyNone, PyBool(TRUE) }

\* The constructor calls whose objects are offered to agregar_producto.
CatalogoArgs ==
    { <<PyStr(<<" ", "a", " ">>), PyStr(<<"A", "b">>), PyInt(2), PyInt(1)>>,
      <<PyStr(<<"a">>), PyStr(<<" ", "b">>), PyInt(2), PyInt(1)>>,
      <<PyStr(<<"b">>), PyStr(<<"b">>), PyInt(2), PyInt(1)>>,
      <<PyStr(<<"c">>), PyStr(<<"a", "B", " ", "c">>), PyInt(2), PyInt(1)>>,
      <<PyStr(<<"d", " ">>), PyStr(<<"C", "d">>), PyInt(2), PyInt(1)>> }

Catalogo ==
    { Producto_init(a[1], a[2], a[3], a[4]).obj[1] :
        a \in {b \in CatalogoArgs : Producto_init(b[1], b[2], b[3], b[4]).exc = ""} }

\* eliminar_por_id(id_producto)
IdBajas ==
    { PyStr(<<" ", "a", " ">>), PyStr(<<"b">>), PyStr(<<"c", " ">>), PyStr(<<"d">>),
      PyStr(<<"A">>) }

\* actualizar(id_producto, cantidad, precio)
IdCambios == { PyStr(<<" ", "a", " ">>), PyStr(<<"A">>) }

CantidadNuevas == { PyNone, PyInt(0), PyFloat(Fin(25)), PyInt(-1), PyFloat(Inf) }

PrecioNuevos == { PyNone, PyStr(<<"1", ",", "5">>), PyInt(1), PyInt(-1) }

\* buscar_por_nombre(termino)
Terminos ==
    { PyStr(<<" ", " ">>), PyStr(<<"a">>), PyStr(<<" ", "B", " ">>),
      PyStr(<<"b", " ", "C">>), PyStr(<<"x">>) }

(***************************************************************************)
(* State.  obj is the Producto the caller holds (none, or one); productos  *)
(* is Inventario.productos; last is the last call, its arguments and its   *)
(* outcome.  vivos and antes record the history of the successful calls:   *)
(* the ids added and not removed since, and for two such ids which one was *)
(* added first.                                                            *)
(***************************************************************************)
Llamada(op, id, nombre, cantidad, precio, prod, r) ==
    [op |-> op, id |-> id, nombre |-> nombre, cantidad |-> cantidad, precio |-> precio,
     prod |-> prod, exc |-> r.exc, msg |-> r.msg, ret |-> r.ret, lst |-> r.lst]

SinResultado == Resultado("", "", FALSE, <<>>, <<>>)

DeProducto(r) == Resultado(r.exc, r.msg, FALSE, <<>>, <<>>)

Init ==
    /\ obj = <<>>
    /\ productos = <<>>
    /\ last = Llamada("", PyNone, PyNone, PyNone, PyNone, <<>>, SinResultado)
    /\ vivos = {}
    /\ antes = {}

\* prod = Producto(id_, nombre, cantidad, precio)
Construir(id_, nombre, cantidad, precio) ==
    LET r == Producto_init(id_, nombre, cantidad, precio)
    IN  /\ obj' = IF r.exc = "" THEN r.obj ELSE obj
        /\ last' = Llamada("Producto", id_, nombre, cantidad, precio, r.obj, DeProducto(r))
        /\ UNCHANGED <<productos, vivos, antes>>

\* prod.set_nombre(x)
SetNombre(x) ==
    /\ obj # <<>>
    /\ LET r == set_nombre(obj[1], x)
       IN  /\ obj' = r.obj
           /\ last' = Llamada("set_nombre", PyNone, x, PyNone, PyNone, obj, DeProducto(r))
    /\ UNCHANGED <<productos, vivos, antes>>

\* prod.set_cantidad(x)
SetCantidad(x) ==
    /\ obj # <<>>
    /\ LET r == set_cantidad(obj[1], x)
       IN  /\ obj' = r.obj
           /\ last' = Llamada("set_cantidad", PyNone, PyNone, x, PyNone, obj, DeProducto(r))
    /\ UNCHANGED <<productos, vivos, antes>>

\* prod.set_precio(x)
SetPrecio(x) ==
    /\ obj # <<>>
    /\ LET r == set_precio(obj[1], x)
       IN  /\ obj' = r.obj
           /\ last' = Llamada("set_precio", PyNone, PyNone, PyNone, x, obj, DeProducto(r))
    /\ UNCHANGED <<productos, vivos, antes>>

\* inventario.agregar_producto(producto)
Agregar(producto) ==
    LET r == agregar_producto(productos, producto)
    IN  /\ Len(productos) < MaxLen
        /\ productos' = r.productos
        /\ last' = Llamada("agregar_producto", PyNone, PyNone, PyNone, PyNone, <<producto>>, r)
        /\ vivos' = IF r.exc = "" THEN vivos \cup {producto.id} ELSE vivos
        /\ antes' = IF r.exc = "" THEN antes \cup {<<x, producto.id>> : x \in vivos} ELSE antes
        /\ UNCHANGED obj

\* inventario.eliminar_por_id(id_producto)
Eliminar(id_producto) ==
    LET r == eliminar_por_id(productos, id_producto)
        id == Strip(ToStr(id_producto))
    IN  /\ productos' = r.productos
        /\ last' = Llamada("eliminar_por_id", id_producto, PyNone, PyNone, PyNone, <<>>, r)
        /\ vivos' = IF r.ret THEN vivos \ {id} ELSE vivos
        /\ antes' = IF r.ret THEN {e \in antes : e[1] # id /\ e[2] # id} ELSE antes
        /\ UNCHANGED obj

\* inventario.actualizar(id_producto, cantidad, precio)
Actualizar(id_producto, cantidad, precio) ==
    LET r == actualizar(productos, id_producto, cantidad, precio)
    IN  /\ productos' = r.productos
        /\ last' = Llamada("actualizar", id_producto, PyNone, cantidad, precio, <<>>, r)
        /\ UNCHANGED <<obj, vivos, antes>>

\* inventario.buscar_por_nombre(termino)
Buscar(termino) ==
    LET r == buscar_por_nombre(productos, termino)
    IN  /\ productos' = r.productos
        /\ last' = Llamada("buscar_por_nombre", PyNone, termino, PyNone, PyNone, <<>>, r)
        /\ UNCHANGED <<obj, vivos, antes>>

\* inventario.mostrar_todos()
Mostrar ==
    LET r == mostrar_todos(productos)
    IN  /\ productos' = r.productos
        /\ last' = Llamada("mostrar_todos", PyNone, PyNone, PyNone, PyNone, <<>>, r)
        /\ UNCHANGED <<obj, vivos, antes>>

\* The calls on the Inventario.
Next ==
    \/ \E producto \in Catalogo : Agregar(producto)
    \/ \E id \in IdBajas : Eliminar(id)
    \/ \E id \in IdCambios, c \in CantidadNuevas, p \in PrecioNuevos : Actualizar(id, c, p)
    \/ \E t \in Terminos : Buscar(t)
    \/ Mostrar

Spec == Init /\ [][Next]_vars

\* The calls on one Producto.
NextProducto ==
    \/ \E i \in IdArgs, n \in NombreArgs, c \in CantidadArgs, p \in PrecioArgs :
          Construir(i, n, c, p)
    \/ \E x \in NombreCambios : SetNombre(x)
    \/ \E x \in CantidadCambios : SetCantidad(x)
    \/ \E x \in PrecioCambios : SetPrecio(x)

SpecProducto == Init /\ [][NextProducto]_vars

(***************************************************************************)
(* Vocabulary of the properties.                                           *)
(***************************************************************************)
Posiciones(ps, id) == {i \in 1..Len(ps) : ps[i].id = id}

Recortado(x) == Strip(ToStr(x))

Suministrada(x) == x # PyNone

\* x >= 0 on floats: false of nan.
FloatGeZero(f) == f.k = "inf" \/ (f.k = "fin" /\ f.v >= 0)

\* Not convertible to an integer, or negative once converted.
CantidadInvalida(x) == Suministrada(x) /\ (ToInt(x).exc # "" \/ ToInt(x).val < 0)

\* Not convertible to a number, or negative once converted.
PrecioInvalido(x) == Suministrada(x) /\ (ToFloat(x).exc # "" \/ FloatLtZero(ToFloat(x).val))

\* The argument is a number below zero.
CantidadNegativa(x) ==
    \/ x.t = "int" /\ x.n < 0
    \/ x.t = "float" /\ FloatLtZero(x.f)
    \/ x.t = "str" /\ ParseInt(x.s).exc = "" /\ ParseInt(x.s).val < 0

\* The argument is no integer: no number at all, a float with a fraction or
\* without a finite value, a text that is no integer literal.
CantidadNoEntera(x) ==
    \/ x.t = "None"
    \/ x.t = "float" /\ (x.f.k # "fin" \/ x.f.v % 10 # 0)
    \/ x.t = "str" /\ ParseInt(x.s).exc # ""

PrecioNegativo(x) == ToFloat(x).exc = "" /\ FloatLtZero(ToFloat(x).val)

PrecioNoNumerico(x) == ToFloat(x).exc # ""

\* t occurs in s at some offset.
Ocurre(t, s) ==
    \E k \in 0..(Len(s) - Len(t)) : \A j \in 1..Len(t) : s[k + j] = t[j]

\* The j-th smallest element of a set of positions.
Enesimo(M, j) == CHOOSE i \in M : Cardinality({x \in M : x < i}) = j - 1

(***************************************************************************)
(* C1: in every reachable state of the Inventario no two products of the   *)
(* list have the same id.                                                  *)
(***************************************************************************)
C1_IdsUnicos ==
    \A i, j \in 1..Len(productos) : i # j => productos[i].id # productos[j].id

\* An add was rejected while the list already held two products.
C1_Witness ==
    /\ last.op = "agregar_producto"
    /\ last.exc # ""
    /\ Len(productos) >= 2

(***************************************************************************)
(* C2 as stated: adding a product whose id is already in the list raises   *)
(* an error of a class other than ValidationError and leaves the list      *)
(* as it was.                                                              *)
(***************************************************************************)
C2_Original ==
    [][(last'.op = "agregar_producto" /\ Posiciones(productos, last'.prod[1].id) # {})
         => /\ last'.exc # ""
            /\ last'.exc # ValidationError
            /\ productos' = productos]_vars

(***************************************************************************)
(* C2 amended: adding a product whose id is already in the list raises     *)
(* ValueError, the class of the validation errors, with the message of the *)
(* repeated id, and leaves the list, contents and order, as it was.        *)
(***************************************************************************)
C2_Amended ==
    [][(last'.op = "agregar_producto" /\ Posiciones(productos, last'.prod[1].id) # {})
         => /\ last'.exc = ValidationError
            /\ last'.msg = MsgIdRepetido
            /\ productos' = productos]_vars

\* A product was rejected whose id is held by a product with other fields.
C2_Witness ==
    /\ last.op = "agregar_producto"
    /\ last.exc = "ValueError"
    /\ Len(productos) >= 2
    /\ \E i \in 1..Len(productos) :
          productos[i].id = last.prod[1].id /\ productos[i] # last.prod[1]

C4_Original ==
    (/\ last.op = "Producto"
     /\ \/ Recortado(last.id) = <<>>
        \/ Recortado(last.nombre) = <<>>
        \/ CantidadNegativa(last.cantidad)
        \/ CantidadNoEntera(last.cantidad)
        \/ PrecioNegativo(last.precio)
        \/ PrecioNoNumerico(last.precio))
      => (last.exc = ValidationError /\ last.prod = <<>>)

(***************************************************************************)
(* C5 as stated: a Producto that exists has a non-empty id and name, a     *)
(* quantity >= 0 and a price >= 0, after its construction and after every  *)
(* setter call; a setter that raises leaves its field at the value it had. *)
(***************************************************************************)
C5_Original ==
    /\ obj # <<>> =>
          /\ obj[1].id # <<>>
          /\ obj[1].nombre # <<>>
          /\ obj[1].cantidad >= 0
          /\ FloatGeZero(obj[1].precio)
    /\ (last.op = "set_nombre" /\ last.exc # "") => obj[1].nombre = last.prod[1].nombre
    /\ (last.op = "set_cantidad" /\ last.exc # "") => obj[1].cantidad = last.prod[1].cantidad
    /\ (last.op = "set_precio" /\ last.exc # "") => obj[1].precio = last.prod[1].precio

(***************************************************************************)
(* C6: mostrar_todos returns the products added and not removed since,     *)
(* each once, in the order in which they were added.                       *)
(***************************************************************************)
C6_ListadoEnOrden ==
    last.op = "mostrar_todos" =>
        /\ {last.lst[i].id : i \in 1..Len(last.lst)} = vivos
        /\ Len(last.lst) = Cardinality(vivos)
        /\ \A i, j \in 1..Len(last.lst) :
              i < j => <<last.lst[i].id, last.lst[j].id>> \in antes

\* Three products listed, "a" last: it was added after "c" and "b".
C6_Witness ==
    /\ last.op = "mostrar_todos"
    /\ Len(last.lst) = 3
    /\ last.lst[1].id = <<"c">>
    /\ last.lst[3].id = <<"a">>

(***************************************************************************)
(* C7: eliminar_por_id with an id that, trimmed, is the id of a product of *)
(* the list returns True and removes that one element: the list is one     *)
(* shorter and the other products keep their places relative to each       *)
(* other.                                                                  *)
(***************************************************************************)
C7_EliminaUno ==
    [][(last'.op = "eliminar_por_id" /\ Posiciones(productos, Recortado(last'.id)) # {})
         => /\ last'.exc = ""
            /\ last'.ret = TRUE
            /\ Len(productos') = Len(productos) - 1
            /\ \E k \in Posiciones(productos, Recortado(last'.id)) :
                  productos' = [i \in 1..(Len(productos) - 1) |->
                                  IF i < k THEN productos[i] ELSE productos[i + 1]]]_vars

\* " a " was removed and two products are left.
C7_Witness ==
    /\ last.op = "eliminar_por_id"
    /\ last.ret = TRUE
    /\ last.id = PyStr(<<" ", "a", " ">>)
    /\ Len(productos) = 2

(***************************************************************************)
(* C8: for an id that no product of the list has, eliminar_por_id and      *)
(* actualizar return False, raise nothing (also when actualizar is given   *)
(* an invalid quantity or price) and leave the list as it was.             *)
(***************************************************************************)
C8_NoEncontrado ==
    [][(/\ last'.op \in {"eliminar_por_id", "actualizar"}
        /\ Posiciones(productos, Recortado(last'.id)) = {})
         => /\ last'.exc = ""
            /\ last'.ret = FALSE
            /\ productos' = productos]_vars

\* actualizar of an absent id with the quantity -1 and the price -1.
C8_Witness ==
    /\ last.op = "actualizar"
    /\ last.cantidad = PyInt(-1)
    /\ last.precio = PyInt(-1)
    /\ last.exc = ""
    /\ last.ret = FALSE
    /\ Len(productos) >= 2

(***************************************************************************)
(* C9: an actualizar on a present id that returns changes, on the product  *)
(* found, the quantity if one was supplied (0 included) and the price if   *)
(* one was supplied, and nothing else: not its id or name, no other        *)
(* product, not the length or order of the list.  It returns True.         *)
(***************************************************************************)
C9_SoloLoSuministrado ==
    [][(/\ last'.op = "actualizar"
        /\ Posiciones(productos, Recortado(last'.id)) # {}
        /\ last'.exc = "")
         => LET k == Enesimo(Posiciones(productos, Recortado(last'.id)), 1)
                c == last'.cantidad
                p == last'.precio
            IN  /\ last'.ret = TRUE
                /\ Len(productos') = Len(productos)
                /\ \A i \in 1..Len(productos) : i # k => productos'[i] = productos[i]
                /\ productos'[k].id = productos[k].id
                /\ productos'[k].nombre = productos[k].nombre
                /\ productos'[k].cantidad =
                      IF Suministrada(c) THEN ToInt(c).val ELSE productos[k].cantidad
                /\ productos'[k].precio =
                      IF Suministrada(p) THEN ToFloat(p).val ELSE productos[k].precio]_vars

\* The quantity 0 was supplied alone and applied; the price is not the
\* initial one.
C9_Witness ==
    /\ last.op = "actualizar"
    /\ last.ret = TRUE
    /\ last.cantidad = PyInt(0)
    /\ last.precio = PyNone
    /\ Len(productos) = 3
    /\ \E i \in 1..Len(productos) :
          /\ productos[i].id = Recortado(last.id)
          /\ productos[i].cantidad = 0
          /\ productos[i].precio = Fin(15)

(***************************************************************************)
(* C10: buscar_por_nombre returns, in the order of the list, the products  *)
(* whose lowercased name contains the trimmed, lowercased term, and no     *)
(* other; nothing when the trimmed term is empty; the list is unchanged.   *)
(***************************************************************************)
C10_Busqueda ==
    [][last'.op = "buscar_por_nombre"
         => LET t == Lower(Recortado(last'.nombre))
                M == IF t = <<>> THEN {}
                     ELSE {i \in 1..Len(productos) : Ocurre(t, Lower(productos[i].nombre))}
            IN  /\ productos' = productos
                /\ last'.exc = ""
                /\ Len(last'.lst) = Cardinality(M)
                /\ \A j \in 1..Len(last'.lst) : last'.lst[j] = productos[Enesimo(M, j)]]_vars

\* "a" found in "Ab" and "aB c" and not in "b".
C10_Witness ==
    /\ last.op = "buscar_por_nombre"
    /\ last.nombre = PyStr(<<"a">>)
    /\ Len(productos) = 3
    /\ Len(last.lst) = 2
    /\ last.lst[1].nombre = <<"A", "b">>

====
